---- MODULE Spec2Model ----
(***************************************************************************)
(* Model of rbxlx-mesh-fixer: the mesh decoder (utils/mesh_reader.rs), the *)
(* asset cache/fetcher (utils/asset_downloader.rs), the fetch batch and    *)
(* the dedup loop of main (main.rs).                                       *)
(*                                                                         *)
(* Strings are sequences of one-character strings, byte buffers are        *)
(* sequences of 0..255, f32 values are integers counting quarters (1.0 is  *)
(* 4): every float the model feeds the decoder is exact in quarters.       *)
(***************************************************************************)
EXTENDS Integers, Sequences, FiniteSets, TLC

VARIABLES
    \* main(): the scene, the fetch batch, the dedup loop
    pc,         \* position of main
    props,      \* candidate object -> its five properties (the dom)
    props0,     \* the properties as read from the input place
    spawned,    \* number of fetch tasks download_meshs has spawned
    task,       \* fetch task -> "unspawned" | "waiting" | "inflight" | "ok" | "err" | "panic"
    held,       \* fetch task -> whether it holds a semaphore permit
    permits,    \* free permits of master_semaphore
    textures,   \* the dedup map: hash -> CachedMesh
    idx,        \* index of the next candidate of the dedup loop
    class,      \* candidate -> the branch of the loop body it took
    decodes,    \* number of RobloxMesh::from_asset_id calls made
    output,     \* whether save_rbx_place wrote the place, and what
    \* download_asset, step by step
    cache,      \* asset id -> "absent" or the chunks in the cache file
    dl,         \* download_asset call -> its position and locals
    \* RobloxMesh::from_cursor applied to one buffer
    buf,        \* the bytes handed to from_cursor
    result      \* tag "pending", or what from_cursor did with buf

vars == <<pc, props, props0, spawned, task, held, permits, textures, idx,
          class, decodes, output, cache, dl, buf, result>>

mainVars == <<pc, props, props0, spawned, task, held, permits, textures, idx,
              class, decodes, output>>
cacheVars == <<cache, dl>>
decodeVars == <<buf, result>>

Min(a, b) == IF a < b THEN a ELSE b

(***************************************************************************)
(* Cursor<Vec<u8>> reads                                                   *)
(***************************************************************************)

\* io::Read::read on a cursor: copies what is left, at most n bytes, and
\* never fails; the caller's array keeps its zeros beyond a short read.
cursor_read(b, pos, n) ==
    LET k == Min(n, Len(b) - pos)
    IN  [bytes |-> [i \in 1..n |-> IF i <= k THEN b[pos + i] ELSE 0],
         pos |-> pos + k]

Width(kind) == IF kind \in {"u16", "i16"} THEN 2 ELSE 4

\* little-endian integers; i32 and i16 are two's complement
LeU16(w) == w[1] + 256 * w[2]
LeI16(w) == IF w[2] >= 128 THEN w[1] + 256 * (w[2] - 256) ELSE LeU16(w)
LeI32(w) ==
    w[1] + 256 * w[2] + 65536 * w[3]
         + 16777216 * (IF w[4] >= 128 THEN w[4] - 256 ELSE w[4])

\* i32 arithmetic.  An i32 `-` or `+` whose result leaves the i32 range
\* panics in a build with overflow checks and wraps in a build without.
MaxI32 == 2147483647
MinI32 == (0 - MaxI32) - 1

SubOverflows(a, b) == IF b < 0 THEN a > MaxI32 + b ELSE a < MinI32 + b
AddOverflows(a, b) == IF b > 0 THEN a > MaxI32 - b ELSE a < MinI32 - b

\* the two's complement result, computed inside the i32 range
wrapping_sub(a, b) ==
    IF ~SubOverflows(a, b) THEN a - b
    ELSE IF b < 0 THEN (a + MinI32) - (b - MinI32)
    ELSE (a - MinI32) - (b + MinI32)

wrapping_add(a, b) ==
    IF ~AddOverflows(a, b) THEN a + b
    ELSE IF b > 0 THEN (a + MinI32) + (b + MinI32)
    ELSE (a - MinI32) + (b - MinI32)

\* what an overflowing operation makes of the call: a panic with overflow
\* checks, else the call goes on with the wrapped value
Overflow(at, unchecked) == [tag |-> "overflow", at |-> at, unchecked |-> unchecked]

RECURSIVE overflow_checked(_, _)
overflow_checked(r, checks) ==
    IF r.tag # "overflow" THEN r
    ELSE IF checks THEN [tag |-> "panic", at |-> r.at]
    ELSE overflow_checked(r.unchecked, checks)

RECURSIVE Pow2(_)
Pow2(n) == IF n = 0 THEN 1 ELSE 2 * Pow2(n - 1)

\* IEEE-754 single precision, in quarters: sign, 8-bit exponent e, 23-bit
\* mantissa m.  Zero is exponent 0 and mantissa 0; a normal number is
\* (2^23 + m) * 2^(e - 150).  Exponent 255 (NaN, infinity) and subnormals
\* are not fed to the model.
F32Magnitude(e, m) ==
    IF e = 0 THEN 0
    ELSE IF e >= 148 THEN (8388608 + m) * Pow2(e - 148)
    ELSE (8388608 + m) \div Pow2(148 - e)

F32Signed(neg, mag) == IF neg THEN 0 - mag ELSE mag

LeF32(w) ==
    F32Signed(w[4] >= 128,
              F32Magnitude((w[4] % 128) * 2 + (w[3] \div 128),
                           (w[3] % 128) * 65536 + w[2] * 256 + w[1]))

Value(kind, w) ==
    CASE kind = "u16" -> LeU16(w)
      [] kind = "i16" -> LeI16(w)
      [] kind = "i32" -> LeI32(w)
      [] kind = "f32" -> LeF32(w)

Eof == [tag |-> "err", kind |-> "UnexpectedEof"]

\* a value read, in front of the values read after it
ConsField(v, rest) ==
    IF rest.tag # "ok" THEN rest
    ELSE [tag |-> "ok", vals |-> <<v>> \o rest.vals, pos |-> rest.pos]

\* byteorder's read_u16/read_i16/read_i32/read_f32, one after the other,
\* each with `?`: read_exact fails with UnexpectedEof on a short read.
RECURSIVE read_fields(_, _, _)
read_fields(b, pos, kinds) ==
    IF kinds = <<>> THEN [tag |-> "ok", vals |-> <<>>, pos |-> pos]
    ELSE IF Len(b) - pos < Width(Head(kinds)) THEN Eof
    ELSE ConsField(Value(Head(kinds), SubSeq(b, pos + 1, pos + Width(Head(kinds)))),
                   read_fields(b, pos + Width(Head(kinds)), Tail(kinds)))

(***************************************************************************)
(* RobloxMesh                                                              *)
(***************************************************************************)

\* "version 4.00\n"
Banner == <<118, 101, 114, 115, 105, 111, 110, 32, 52, 46, 48, 48, 10>>
BannerLen == 13
HeaderSize == 24

\* std::str::from_utf8 fails on a byte that no UTF-8 sequence holds
\* (0xF8..0xFF); the other non-ASCII bytes are not fed to the model.
Utf8Error(w) == \E i \in 1..Len(w) : w[i] >= 248

HeaderKinds == <<"u16", "i32", "i32", "u16", "u16", "i32", "u16", "u16">>

\* the eight fields of RobloxMeshHeader, in the order they are read
HeaderFields(f) ==
    IF f.tag # "ok" THEN f
    ELSE [tag |-> "ok", pos |-> f.pos,
          header |-> [num_meshes |-> f.vals[1],
                      num_verts |-> f.vals[2],
                      num_faces |-> f.vals[3],
                      num_lods |-> f.vals[4],
                      num_bones |-> f.vals[5],
                      name_table_size |-> f.vals[6],
                      num_skin_data |-> f.vals[7],
                      stub |-> f.vals[8]]]

\* `assert_eq!(cursor.read_i16::<LittleEndian>()?, 24)`, then the fields
HeaderAfterSize(b, size) ==
    IF size.tag # "ok" THEN size
    ELSE IF size.vals[1] # HeaderSize
    THEN [tag |-> "panic", at |-> "assert_eq header size"]
    ELSE HeaderFields(read_fields(b, size.pos, HeaderKinds))

\* `assert_eq!(std::str::from_utf8(&version)?, "version 4.00\n")`, then the
\* header size
HeaderAfterVersion(b, version) ==
    IF Utf8Error(version.bytes) THEN [tag |-> "err", kind |-> "Utf8Error"]
    ELSE IF version.bytes # Banner
    THEN [tag |-> "panic", at |-> "assert_eq version"]
    ELSE HeaderAfterSize(b, read_fields(b, version.pos, <<"i16">>))

\* cursor.read(&mut version): a short read leaves zeros in the array
read_header(b) == HeaderAfterVersion(b, cursor_read(b, 0, BannerLen))

default_vector == [x |-> 0, y |-> 0, z |-> 0]

NoWeights == [bones |-> <<0, 0, 0, 0>>, weights |-> <<0, 0, 0, 0>>]

VertexKinds == <<"f32", "f32", "f32", "f32", "f32", "f32", "f32", "f32", "f32", "i32">>

VertexOf(f) ==
    IF f.tag # "ok" THEN f
    ELSE [tag |-> "ok", pos |-> f.pos,
          vertex |-> [position |-> [x |-> f.vals[1], y |-> f.vals[2], z |-> f.vals[3]],
                      normal |-> [x |-> f.vals[4], y |-> f.vals[5], z |-> f.vals[6]],
                      uv |-> [x |-> f.vals[7], y |-> f.vals[8], z |-> f.vals[9]],
                      color |-> f.vals[10],
                      weights |-> NoWeights]]

\* position, normal, uv (read_vector3 each) and color of one vertex
read_vertex(b, pos) == VertexOf(read_fields(b, pos, VertexKinds))

WeightsOf(bones, weights) ==
    [tag |-> "ok", pos |-> weights.pos,
     weights |-> [bones |-> bones.bytes, weights |-> weights.bytes]]

WeightsAfterBones(b, bones) == WeightsOf(bones, cursor_read(b, bones.pos, 4))

\* two cursor.read calls: a short read is not an error here
read_vert_weights(b, pos) == WeightsAfterBones(b, cursor_read(b, pos, 4))

ConsVert(v, rest) ==
    IF rest.tag # "ok" THEN rest
    ELSE [tag |-> "ok", verts |-> <<v.vertex>> \o rest.verts, pos |-> rest.pos]

\* the first loop of read_verts: n vertex records
RECURSIVE read_vert_block(_, _, _)
VertBlockAfter(b, v, n) ==
    IF v.tag # "ok" THEN v ELSE ConsVert(v, read_vert_block(b, v.pos, n - 1))

read_vert_block(b, pos, n) ==
    IF n <= 0 THEN [tag |-> "ok", verts |-> <<>>, pos |-> pos]
    ELSE VertBlockAfter(b, read_vertex(b, pos), n)

ConsWeighted(vert, w, rest) ==
    [tag |-> "ok", verts |-> <<[vert EXCEPT !.weights = w.weights]>> \o rest.verts,
     pos |-> rest.pos]

\* the second loop of read_verts: the trailing bone-weight block
RECURSIVE read_weight_block(_, _, _)
WeightBlockAfter(b, w, verts) ==
    ConsWeighted(Head(verts), w, read_weight_block(b, w.pos, Tail(verts)))

read_weight_block(b, pos, verts) ==
    IF verts = <<>> THEN [tag |-> "ok", verts |-> <<>>, pos |-> pos]
    ELSE WeightBlockAfter(b, read_vert_weights(b, pos), verts)

VertsAfterBlock(header, b, vs) ==
    IF vs.tag # "ok" THEN vs
    ELSE IF header.num_bones > 0 THEN read_weight_block(b, vs.pos, vs.verts)
    ELSE vs

read_verts(header, b, pos) ==
    VertsAfterBlock(header, b, read_vert_block(b, pos, header.num_verts))

ConsFace(f, rest) ==
    IF rest.tag # "ok" THEN rest
    ELSE [tag |-> "ok", faces |-> <<f.vals>> \o rest.faces, pos |-> rest.pos]

RECURSIVE read_faces_n(_, _, _)
FacesAfter(b, f, n) ==
    IF f.tag # "ok" THEN f ELSE ConsFace(f, read_faces_n(b, f.pos, n - 1))

read_faces_n(b, pos, n) ==
    IF n <= 0 THEN [tag |-> "ok", faces |-> <<>>, pos |-> pos]
    ELSE FacesAfter(b, read_fields(b, pos, <<"i32", "i32", "i32">>), n)

read_faces(header, b, pos) == read_faces_n(b, pos, header.num_faces)

ConsLod(f, rest) ==
    IF rest.tag # "ok" THEN rest
    ELSE [tag |-> "ok", lods |-> <<f.vals[1]>> \o rest.lods, pos |-> rest.pos]

RECURSIVE read_lods_n(_, _, _)
LodsAfter(b, f, n) ==
    IF f.tag # "ok" THEN f ELSE ConsLod(f, read_lods_n(b, f.pos, n - 1))

read_lods_n(b, pos, n) ==
    IF n <= 0 THEN [tag |-> "ok", lods |-> <<>>, pos |-> pos]
    ELSE LodsAfter(b, read_fields(b, pos, <<"i32">>), n)

read_lods(header, b, pos) == read_lods_n(b, pos, header.num_lods)

\* One call of the closure f(vertice, g_item) that caculate_bounding_box
\* hands to get_vertex_and_remove, named by what it compares.
Better(cmp, v, g) ==
    CASE cmp = "min_x" -> v.position.x < g.position.x
      [] cmp = "max_x" -> v.position.x > g.position.x
      [] cmp = "min_z" -> v.position.z < g.position.z
      [] cmp = "max_z" -> v.position.z > g.position.z

\* the scan of get_vertex_and_remove: the index of the chosen vertex
RECURSIVE ScanBest(_, _, _, _)
ScanBest(items, cmp, i, g) ==
    IF i > Len(items) THEN g
    ELSE ScanBest(items, cmp, i + 1,
                  IF Better(cmp, items[i], items[g]) THEN i ELSE g)

RemoveAt(items, g) ==
    [i \in 1..(Len(items) - 1) |-> IF i < g THEN items[i] ELSE items[i + 1]]

Removed(items, g) == [tag |-> "ok", item |-> items[g], rest |-> RemoveAt(items, g)]

\* items[0] panics on an empty vector
get_vertex_and_remove(items, cmp) ==
    IF items = <<>> THEN [tag |-> "panic", at |-> "index out of bounds"]
    ELSE Removed(items, ScanBest(items, cmp, 1, 1))

SetMin(p, m) == IF p < m THEN p ELSE m
SetMax(p, m) == IF p > m THEN p ELSE m

\* the six check_set_min!/check_set_max! of one vertex
BoxWith(p, box) ==
    [min |-> [x |-> SetMin(p.x, box.min.x), y |-> SetMin(p.y, box.min.y),
              z |-> SetMin(p.z, box.min.z)],
     max |-> [x |-> SetMax(p.x, box.max.x), y |-> SetMax(p.y, box.max.y),
              z |-> SetMax(p.z, box.max.z)]]

RECURSIVE FoldBox(_, _, _)
FoldBox(vs, i, box) ==
    IF i > Len(vs) THEN box ELSE FoldBox(vs, i + 1, BoxWith(vs[i].position, box))

\* self.vertices[0] panics when there is no vertex
calculate_bounding_box_size(vs) ==
    IF vs = <<>> THEN [tag |-> "panic", at |-> "index out of bounds"]
    ELSE [tag |-> "ok",
          size |-> FoldBox(vs, 1, [min |-> vs[1].position, max |-> vs[1].position])]

\* one get_vertex_and_remove of caculate_bounding_box on what the earlier
\* ones left; a panic ends the sequence
TakeFound(st, r) ==
    IF r.tag # "ok" THEN r
    ELSE [tag |-> "ok", rest |-> r.rest, found |-> Append(st.found, r.item.position)]

Take(st, cmp) ==
    IF st.tag # "ok" THEN st ELSE TakeFound(st, get_vertex_and_remove(st.rest, cmp))

BoxOf(st) ==
    IF st.tag # "ok" THEN st
    ELSE [tag |-> "ok",
          box |-> [min_x |-> st.found[1], max_x |-> st.found[2],
                   min_z |-> st.found[3], max_z |-> st.found[4]]]

\* four vertices are taken out of a copy of the vertex list, one after the
\* other: the call that finds the copy empty panics
caculate_bounding_box(vs) ==
    BoxOf(Take(Take(Take(Take([tag |-> "ok", rest |-> vs, found |-> <<>>],
                              "min_x"), "max_x"), "min_z"), "max_z"))

Abs(q) == IF q < 0 THEN 0 - q ELSE q

\* `as i32` on an f32 (in quarters): truncation toward zero
AsI32(q) == IF q >= 0 THEN q \div 4 ELSE 0 - ((0 - q) \div 4)

\* the sum of the minimum corner taken with its sign
HashOf_without_abs(triangles, min, max) == wrapping_add(triangles, AsI32(min + max))

\* `self.triangles + (min.abs() + max) as i32`
HashOf(triangles, min, max) == wrapping_add(triangles, AsI32(Abs(min) + max))

HashOverflows(triangles, min, max) == AddOverflows(triangles, AsI32(Abs(min) + max))

calculate_hash(triangles, size) ==
    HashOf(triangles, size.min.x + size.min.y + size.min.z,
           size.max.x + size.max.y + size.max.z)

calculate_hash_overflows(triangles, size) ==
    HashOverflows(triangles, size.min.x + size.min.y + size.min.z,
                  size.max.x + size.max.y + size.max.z)

\* from_cursor reads the four blocks in turn; `?` returns the first Err
WithVertsRead(h, vs) ==
    IF vs.tag # "ok" THEN vs
    ELSE [tag |-> "ok", pos |-> vs.pos, header |-> h.header, vertices |-> vs.verts]

WithVerts(b, h) ==
    IF h.tag # "ok" THEN h ELSE WithVertsRead(h, read_verts(h.header, b, h.pos))

WithFacesRead(st, fs) ==
    IF fs.tag # "ok" THEN fs
    ELSE [tag |-> "ok", pos |-> fs.pos, header |-> st.header,
          vertices |-> st.vertices, faces |-> fs.faces]

WithFaces(b, st) ==
    IF st.tag # "ok" THEN st ELSE WithFacesRead(st, read_faces(st.header, b, st.pos))

WithLodsRead(st, ls) ==
    IF ls.tag # "ok" THEN ls
    ELSE [tag |-> "ok", header |-> st.header, vertices |-> st.vertices,
          faces |-> st.faces, lods |-> ls.lods]

WithLods(b, st) ==
    IF st.tag # "ok" THEN st ELSE WithLodsRead(st, read_lods(st.header, b, st.pos))

\* `if mesh.lods.len() > 1 { mesh.triangles = mesh.lods[1] - mesh.lods[0] }`
Triangles(lods) == IF Len(lods) > 1 THEN wrapping_sub(lods[2], lods[1]) ELSE 0

TrianglesOverflow(lods) == Len(lods) > 1 /\ SubOverflows(lods[2], lods[1])

\* the custom fields: calculate_bounding_box_size, caculate_bounding_box,
\* calculate_hash, in this order; a panic of the first ends the call
WithCustomFields(st, triangles, size, box) ==
    IF size.tag # "ok" THEN size
    ELSE IF box.tag # "ok" THEN box
    ELSE [tag |-> "ok",
          mesh |-> [header |-> st.header,
                    lods |-> st.lods,
                    faces |-> st.faces,
                    vertices |-> st.vertices,
                    bounding_box |-> box.box,
                    bounding_box_size |-> size.size,
                    rotation |-> default_vector,
                    triangles |-> triangles,
                    hash |-> calculate_hash(triangles, size.size)]]

Structure(b) == WithLods(b, WithFaces(b, WithVerts(b, read_header(b))))

\* the `+` of calculate_hash, reached when nothing before it panicked
WithHash(triangles, size, r) ==
    IF r.tag = "ok" /\ calculate_hash_overflows(triangles, size.size)
    THEN Overflow("attempt to add with overflow", r)
    ELSE r

\* the `-` of the triangle count, before the bounding boxes are computed
WithTriangles(overflows, r) ==
    IF overflows THEN Overflow("attempt to subtract with overflow", r) ELSE r

Customize(st) ==
    IF st.tag # "ok" THEN st
    ELSE WithTriangles(TrianglesOverflow(st.lods),
             WithHash(Triangles(st.lods),
                      calculate_bounding_box_size(st.vertices),
                      WithCustomFields(st, Triangles(st.lods),
                                       calculate_bounding_box_size(st.vertices),
                                       caculate_bounding_box(st.vertices))))

\* the value of from_cursor: Ok(mesh), Err(e), a panic, or an overflow,
\* which overflow_checked turns into the outcome of the build
from_cursor(b) == Customize(Structure(b))

(***************************************************************************)
(* Mesh buffers fed to the decoder                                         *)
(***************************************************************************)

MaxVerts == 4
MaxFaces == 1
MaxLods == 2

\* "version 3.00\n", and a banner holding a byte that is not UTF-8; the
\* third malformed buffer declares a header size of 20
BannerV3 == <<118, 101, 114, 115, 105, 111, 110, 32, 51, 46, 48, 48, 10>>
BannerFF == <<118, 101, 114, 115, 105, 111, 110, 32, 52, 46, 48, 48, 255>>

U16Bytes(n) == <<n % 256, n \div 256>>
\* two's complement: the low 31 bits, and the sign in the top bit
I32Low31(u, neg) ==
    <<u % 256, (u \div 256) % 256, (u \div 65536) % 256,
      (u \div 16777216) + (IF neg THEN 128 ELSE 0)>>
I32Bytes(n) == I32Low31(IF n < 0 THEN n - MinI32 ELSE n, n < 0)

\* the little-endian bytes of the floats the buffers hold, by quarters
F32Bytes(q) ==
    CASE q = 0 -> <<0, 0, 0, 0>>
      [] q = 1 -> <<0, 0, 128, 62>>
      [] q = 2 -> <<0, 0, 0, 63>>
      [] q = 3 -> <<0, 0, 64, 63>>
      [] q = 4 -> <<0, 0, 128, 63>>
      [] q = 6 -> <<0, 0, 192, 63>>
      [] q = 8 -> <<0, 0, 0, 64>>
      [] q = -2 -> <<0, 0, 0, 191>>
      [] q = -4 -> <<0, 0, 128, 191>>
      [] q = -8 -> <<0, 0, 0, 192>>

Vec(x, y, z) == [x |-> x, y |-> y, z |-> z]

\* Vertex positions of three meshes.  "A" and "B" hold the same four points
\* in another order (the same bounding box from four vertices on), "C" is
\* another box.
Shapes == {"A", "B", "C"}
ShapePos(shape, k) ==
    CASE shape = "A" -> (CASE k = 1 -> Vec(-4, -4, -4) [] k = 2 -> Vec(4, 4, 4)
                           [] k = 3 -> Vec(0, 2, 0) [] k = 4 -> Vec(2, 0, -2)
                           [] OTHER -> Vec(0, 0, 0))
      [] shape = "B" -> (CASE k = 1 -> Vec(2, 0, -2) [] k = 2 -> Vec(0, 2, 0)
                           [] k = 3 -> Vec(4, 4, 4) [] k = 4 -> Vec(-4, -4, -4)
                           [] OTHER -> Vec(0, 0, 0))
      [] shape = "C" -> (CASE k = 1 -> Vec(-8, 0, -4) [] k = 2 -> Vec(8, 6, 4)
                           [] k = 3 -> Vec(1, 3, 0) [] k = 4 -> Vec(0, 0, 0)
                           [] OTHER -> Vec(2, 2, 2))

RECURSIVE Flatten(_)
Flatten(ss) == IF ss = <<>> THEN <<>> ELSE Head(ss) \o Flatten(Tail(ss))

EncodeVec(v) == F32Bytes(v.x) \o F32Bytes(v.y) \o F32Bytes(v.z)

\* one vertex record: position, normal (0,1,0), uv (0,0,0), color 0xFFFFFFFF
EncodeVertex(p) ==
    EncodeVec(p) \o EncodeVec(Vec(0, 4, 0)) \o EncodeVec(Vec(0, 0, 0))
        \o <<255, 255, 255, 255>>

\* one bone-weight record: no byte of it is zero
EncodeWeights == <<1, 2, 3, 4, 64, 64, 64, 63>>

\* a layout: the counts of the header and the shape of the vertex block
Layouts ==
    [num_verts : 0..MaxVerts, num_bones : {0, 1}, num_faces : 0..MaxFaces,
     num_lods : 0..MaxLods, shape : Shapes]

\* the LOD boundaries of a layout: 0, 10, .. unless the layout names them
LodOf(l, k) == IF "lods" \in DOMAIN l THEN l.lods[k] ELSE (k - 1) * 10

EncodeBody(l) ==
    U16Bytes(1) \o I32Bytes(l.num_verts) \o I32Bytes(l.num_faces)
        \o U16Bytes(l.num_lods) \o U16Bytes(l.num_bones) \o I32Bytes(0)
        \o U16Bytes(0) \o U16Bytes(0)
        \o Flatten([k \in 1..l.num_verts |-> EncodeVertex(ShapePos(l.shape, k))])
        \o (IF l.num_bones > 0
            THEN Flatten([k \in 1..l.num_verts |-> EncodeWeights]) ELSE <<>>)
        \o Flatten([k \in 1..l.num_faces |-> I32Bytes(0) \o I32Bytes(1) \o I32Bytes(2)])
        \o Flatten([k \in 1..l.num_lods |-> I32Bytes(LodOf(l, k))])

Encode(l) == Banner \o U16Bytes(HeaderSize) \o EncodeBody(l)

Prefixes(b) == {SubSeq(b, 1, n) : n \in 0..Len(b)}

\* a layout with every block present, for the malformed headers
FullLayout ==
    [num_verts |-> MaxVerts, num_bones |-> 1, num_faces |-> MaxFaces,
     num_lods |-> MaxLods, shape |-> "A"]

\* LOD boundaries at the ends of the i32 range and in descending order
LodPairs ==
    {<<0 - 1, MaxI32>>, <<MinI32, 0>>, <<0, MaxI32>>, <<MaxI32, 0 - 1>>,
     <<MaxI32 - 7, MaxI32>>, <<0, MaxI32 - 6>>, <<10, 0>>, <<MinI32, MinI32 + 3>>}

LodLayouts ==
    {[num_verts |-> MaxVerts, num_bones |-> 0, num_faces |-> 0, num_lods |-> 2,
      shape |-> s, lods |-> p] : s \in Shapes, p \in LodPairs}

\* every well-formed buffer, every truncation of the shape "A" buffers, the
\* buffers with other LOD boundaries, and the buffers with another banner
\* or header size
InputBuffers ==
    {Encode(l) : l \in Layouts \cup LodLayouts}
        \cup UNION {Prefixes(Encode(l)) : l \in {m \in Layouts : m.shape = "A"}}
        \cup {BannerV3 \o U16Bytes(HeaderSize) \o EncodeBody(FullLayout),
              BannerFF \o U16Bytes(HeaderSize) \o EncodeBody(FullLayout),
              Banner \o U16Bytes(20) \o EncodeBody(FullLayout)}

(***************************************************************************)
(* from_cursor applied to one buffer                                       *)
(***************************************************************************)

MainIdle ==
    /\ pc = "idle"
    /\ props = <<>>
    /\ props0 = <<>>
    /\ spawned = 0
    /\ task = <<>>
    /\ held = <<>>
    /\ permits = 0
    /\ textures = <<>>
    /\ idx = 0
    /\ class = <<>>
    /\ decodes = 0
    /\ output = [written |-> FALSE]

CacheIdle ==
    /\ cache = <<>>
    /\ dl = <<>>

DecodeIdle ==
    /\ buf = <<>>
    /\ result = [tag |-> "idle"]

InitDecode ==
    /\ MainIdle
    /\ CacheIdle
    /\ buf \in InputBuffers
    /\ result = [tag |-> "pending"]

Decode ==
    /\ result.tag = "pending"
    /\ \E checks \in BOOLEAN : result' = overflow_checked(from_cursor(buf), checks)
    /\ UNCHANGED <<buf, mainVars, cacheVars>>

NextDecode == Decode

SpecDecode == InitDecode /\ [][NextDecode]_vars

(***************************************************************************)
(* Strings, asset identifiers, the remote asset store                      *)
(***************************************************************************)

WhiteSpace == {" "}
Digits == {"0", "1", "2", "3", "4", "5", "6", "7", "8", "9"}

RECURSIVE trim_start(_)
trim_start(s) ==
    IF s # <<>> /\ Head(s) \in WhiteSpace THEN trim_start(Tail(s)) ELSE s

RECURSIVE trim_end(_)
trim_end(s) ==
    IF s # <<>> /\ s[Len(s)] \in WhiteSpace
    THEN trim_end(SubSeq(s, 1, Len(s) - 1)) ELSE s

\* str::trim
trim(s) == trim_end(trim_start(s))

\* the end of the run of digits that starts at i
RECURSIVE DigitRunEnd(_, _)
DigitRunEnd(s, i) ==
    IF i < Len(s) /\ s[i + 1] \in Digits THEN DigitRunEnd(s, i + 1) ELSE i

\* Regex (\d+), find: the leftmost, longest run of digits; Err without one
FirstDigit(s) ==
    CHOOSE k \in 1..Len(s) : s[k] \in Digits /\ \A j \in 1..(k - 1) : s[j] \notin Digits

extract_assetid(s) ==
    IF \A i \in 1..Len(s) : s[i] \notin Digits
    THEN [tag |-> "err", kind |-> "Invalid regex"]
    ELSE [tag |-> "ok", id |-> SubSeq(s, FirstDigit(s), DigitRunEnd(s, FirstDigit(s)))]

\* What the asset store serves: assets 1 and 2 are the same geometry in two
\* vertex orders, 3 is another mesh, 4 is a version 3.00 mesh.
MeshLayout(shape) ==
    [num_verts |-> 4, num_bones |-> 0, num_faces |-> 1, num_lods |-> 2,
     shape |-> shape]

RemoteBody(id) ==
    CASE id = <<"1">> -> Encode(MeshLayout("A"))
      [] id = <<"2">> -> Encode(MeshLayout("B"))
      [] id = <<"3">> -> Encode(MeshLayout("C"))
      [] OTHER -> BannerV3 \o U16Bytes(HeaderSize) \o EncodeBody(MeshLayout("A"))

\* How a download_asset call of a fetch task can end: Err from
\* extract_assetid; else the response arrives ("ok"), reqwest fails ("err")
\* or the status assertion fails ("panic").
DownloadOutcomes(mesh_id) ==
    IF extract_assetid(mesh_id).tag # "ok" THEN {"err"}
    ELSE {"ok", "err", "panic"}

\* the assets the candidates of the model name, and what from_cursor makes
\* of the body of each
AssetIds == {<<"1">>, <<"2">>, <<"3">>, <<"4">>}
Decoded == [id \in AssetIds |-> from_cursor(RemoteBody(id))]

\* RobloxMesh::from_asset_id in the dedup loop: download_asset, then
\* from_cursor.  The batch has succeeded, so the cache file exists and
\* holds the asset's body.
DecodeCached(id) ==
    IF id.tag # "ok" THEN id
    ELSE IF id.id \in AssetIds THEN Decoded[id.id]
    ELSE from_cursor(RemoteBody(id.id))

from_asset_id(mesh_id) == DecodeCached(extract_assetid(mesh_id))

(***************************************************************************)
(* CFrame                                                                  *)
(***************************************************************************)

\* CFrame as its twelve components: position, then the rotation rows
CFrameMult(a, b) ==
    <<a[4] * b[1] + a[5] * b[2] + a[6] * b[3] + a[1],
      a[7] * b[1] + a[8] * b[2] + a[9] * b[3] + a[2],
      a[10] * b[1] + a[11] * b[2] + a[12] * b[3] + a[3],
      a[4] * b[4] + a[5] * b[7] + a[6] * b[10],
      a[4] * b[5] + a[5] * b[8] + a[6] * b[11],
      a[4] * b[6] + a[5] * b[9] + a[6] * b[12],
      a[7] * b[4] + a[8] * b[7] + a[9] * b[10],
      a[7] * b[5] + a[8] * b[8] + a[9] * b[11],
      a[7] * b[6] + a[8] * b[9] + a[9] * b[12],
      a[10] * b[4] + a[11] * b[7] + a[12] * b[10],
      a[10] * b[5] + a[11] * b[8] + a[12] * b[11],
      a[10] * b[6] + a[11] * b[9] + a[12] * b[12]>>

\* calculate_rotation returns the zero vector whatever the meshes are
calculate_rotation(mesh, mesh2) == default_vector

\* CFrame::angles(0, 0, 0): cos 0 = 1 and sin 0 = 0 leave each basis axis
\* where it is, so the three factors and their product are the identity.
\* The dedup loop calls angles with calculate_rotation's zero only.
CFrameAnglesZero == <<0, 0, 0, 1, 0, 0, 0, 1, 0, 0, 0, 1>>

(***************************************************************************)
(* main: the scene                                                         *)
(***************************************************************************)

NumObjects == 3
NumPermits == 4

\* the candidates an input place may hold: TextureID and MeshId
ObjectKinds ==
    {[TextureID |-> <<"t", "7">>, MeshId |-> <<"a", "1">>],
     [TextureID |-> <<"t", "7">>, MeshId |-> <<"a", "2">>],
     [TextureID |-> <<"t", "7">>, MeshId |-> <<"a", "3">>],
     [TextureID |-> <<"t", "7">>, MeshId |-> <<"a", "4">>],
     [TextureID |-> <<" ">>, MeshId |-> <<"a", "1">>],
     [TextureID |-> <<"t", "7">>, MeshId |-> <<" ">>]}

\* candidate i of a place: its sizes and its CFrame (a quarter turn about
\* the vertical axis at its own position) tell the candidates apart
Object(i, kind) ==
    [TextureID |-> kind.TextureID,
     MeshId |-> kind.MeshId,
     InitialSize |-> Vec(10 + i, 10 + i, 10 + i),
     Size |-> Vec(20 + i, 20 + i, 20 + i),
     CFrame |-> <<i, 2 * i, 3 * i, 0, 0, 1, 0, 1, 0, -1, 0, 0>>]

Objects == DOMAIN props

\* the state of main when it calls download_meshs on scene
MainStarts(scene) ==
    /\ pc = "download_meshs"
    /\ props = scene
    /\ props0 = scene
    /\ spawned = 0
    /\ task = [i \in DOMAIN scene |-> "unspawned"]
    /\ held = [i \in DOMAIN scene |-> FALSE]
    /\ permits = NumPermits
    /\ textures = <<>>
    /\ idx = 0
    /\ class = [i \in DOMAIN scene |-> "pending"]
    /\ decodes = 0
    /\ output = [written |-> FALSE]

Init ==
    /\ \E kinds \in [1..NumObjects -> ObjectKinds] :
          MainStarts([i \in 1..NumObjects |-> Object(i, kinds[i])])
    /\ CacheIdle
    /\ DecodeIdle

(***************************************************************************)
(* download_meshs: one task per candidate, a semaphore of four permits     *)
(***************************************************************************)

Failed(t) == t \in {"err", "panic"}
Finished(t) == t \in {"ok", "err", "panic"}

\* the permit forgotten (SemaphorePermit::forget): it is never given back
semaphore_acquire_forgotten(p) == [permits |-> p - 1, held |-> FALSE]

\* the permit dropped as soon as it is acquired (as `let _ = ..` would)
semaphore_acquire_permit_dropped(p) == [permits |-> p, held |-> FALSE]

\* `match semaphore.acquire().await { Ok(_) => download_asset(..).await ..`:
\* the permit is the value of the scrutinee, `_` does not move it, and it
\* lives until the match ends, that is until download_asset has returned.
semaphore_acquire(p) == [permits |-> p - 1, held |-> TRUE]

\* a panicked task (Err(JoinError)) taken for a success
download_meshs_result_ignoring_panics(t) ==
    IF \E i \in DOMAIN t : t[i] = "err" THEN "Err" ELSE "Ok"

\* find() over the joined handles: Ok(false) and Err(JoinError) give Err(())
download_meshs_result(t) ==
    IF \E i \in DOMAIN t : Failed(t[i]) THEN "Err" ELSE "Ok"

\* main going on after a failed batch
main_after_download_ignoring_err(res) == "loop"

\* main after download_meshs: `if let Err(_) = .. { eprintln!; return; }`
main_after_download(res) == IF res = "Err" THEN "returned" ELSE "loop"

\* the for loop of download_meshs spawns the task of the next candidate;
\* tasks spawned earlier run meanwhile
Spawn ==
    /\ pc = "download_meshs"
    /\ spawned < Len(props)
    /\ spawned' = spawned + 1
    /\ task' = [task EXCEPT ![spawned + 1] = "waiting"]
    /\ UNCHANGED <<pc, props, props0, held, permits, textures, idx, class,
                   decodes, output, cacheVars, decodeVars>>

\* a task gets a permit and enters download_asset
Acquire(i) ==
    /\ task[i] = "waiting"
    /\ permits > 0
    /\ permits' = semaphore_acquire(permits).permits
    /\ held' = [held EXCEPT ![i] = semaphore_acquire(permits).held]
    /\ task' = [task EXCEPT ![i] = "inflight"]
    /\ UNCHANGED <<pc, props, props0, spawned, textures, idx, class, decodes,
                   output, cacheVars, decodeVars>>

\* download_asset returns or panics; the task ends and drops its permit
Finish(i) ==
    /\ task[i] = "inflight"
    /\ \E o \in DownloadOutcomes(props[i].MeshId) :
          task' = [task EXCEPT ![i] = o]
    /\ permits' = IF held[i] THEN permits + 1 ELSE permits
    /\ held' = [held EXCEPT ![i] = FALSE]
    /\ UNCHANGED <<pc, props, props0, spawned, textures, idx, class, decodes,
                   output, cacheVars, decodeVars>>

\* join_all has every task's result; download_meshs returns and main either
\* returns or enters the dedup loop
JoinAll ==
    /\ pc = "download_meshs"
    /\ spawned = Len(props)
    /\ \A i \in Objects : Finished(task[i])
    /\ pc' = main_after_download(download_meshs_result(task))
    /\ idx' = IF main_after_download(download_meshs_result(task)) = "loop" THEN 1 ELSE idx
    /\ UNCHANGED <<props, props0, spawned, task, held, permits, textures,
                   class, decodes, output, cacheVars, decodeVars>>

(***************************************************************************)
(* main: the dedup loop                                                    *)
(***************************************************************************)

\* the skip test without the texture identifier
is_skipped_mesh_only(texture_id, mesh_id) == trim(mesh_id) = <<>>

\* `texture_id.trim() == "" || mesh_id.trim() == ""`
is_skipped(texture_id, mesh_id) == trim(texture_id) = <<>> \/ trim(mesh_id) = <<>>

\* a map that never finds the key: every candidate is inserted
contains_key_never(tex, hash) == FALSE

\* `textures.contains_key(&mesh.hash)`
contains_key(tex, hash) == hash \in DOMAIN tex

\* an insert that leaves the map as it is
insert_nothing(tex, hash, entry) == tex

\* BTreeMap::insert
insert(tex, hash, entry) ==
    [k \in DOMAIN tex \cup {hash} |-> IF k = hash THEN entry ELSE tex[k]]

\* Size and InitialSize taken from each other's field
rewrite_sizes_swapped(child, new_mesh, cframe, rotation) ==
    [child EXCEPT !.MeshId = new_mesh.asset_id,
                  !.Size = new_mesh.init_size,
                  !.InitialSize = new_mesh.size,
                  !.CFrame = CFrameMult(cframe, CFrameAnglesZero)]

\* the four modify_property! of the duplicate branch
rewrite(child, new_mesh, cframe, rotation) ==
    [child EXCEPT !.MeshId = new_mesh.asset_id,
                  !.Size = new_mesh.size,
                  !.InitialSize = new_mesh.init_size,
                  !.CFrame = CFrameMult(cframe, CFrameAnglesZero)]

\* the CachedMesh of the else branch
CachedMesh(mesh, mesh_id, cframe, init_size, size) ==
    [mesh |-> mesh, asset_id |-> mesh_id, cframe |-> cframe,
     init_size |-> init_size, size |-> size]

\* the loop body from from_asset_id's result on: expect("download-mesh")
\* (or the decoder's own panic), else the duplicate or the else branch
Dedup(child, r) ==
    /\ decodes' = decodes + 1
    /\ IF r.tag # "ok"
       THEN /\ pc' = "panicked"
            /\ UNCHANGED <<props, textures, idx, class>>
       ELSE IF contains_key(textures, r.mesh.hash)
       THEN /\ props' = [props EXCEPT ![idx] =
                           rewrite(child, textures[r.mesh.hash], child.CFrame,
                                   calculate_rotation(r.mesh, textures[r.mesh.hash].mesh))]
            /\ class' = [class EXCEPT ![idx] = "rewritten"]
            /\ idx' = idx + 1
            /\ UNCHANGED <<pc, textures>>
       ELSE /\ textures' = insert(textures, r.mesh.hash,
                                  CachedMesh(r.mesh, child.MeshId, child.CFrame,
                                             child.InitialSize, child.Size))
            /\ class' = [class EXCEPT ![idx] = "canonical"]
            /\ idx' = idx + 1
            /\ UNCHANGED <<pc, props>>

\* one pass of the body of `for child_ref in children`
LoopChild(child) ==
    IF is_skipped(child.TextureID, child.MeshId)
    THEN /\ class' = [class EXCEPT ![idx] = "skipped"]
         /\ idx' = idx + 1
         /\ UNCHANGED <<pc, props, textures, decodes>>
    ELSE \E checks \in BOOLEAN :
            Dedup(child, overflow_checked(from_asset_id(child.MeshId), checks))

LoopBody ==
    /\ pc = "loop"
    /\ idx <= Len(props)
    /\ LoopChild(props[idx])
    /\ UNCHANGED <<props0, spawned, task, held, permits, output, cacheVars,
                   decodeVars>>

\* save_rbx_place writes the place
Save ==
    /\ pc = "loop"
    /\ idx = Len(props) + 1
    /\ output' = [written |-> TRUE, scene |-> props]
    /\ pc' = "done"
    /\ UNCHANGED <<props, props0, spawned, task, held, permits, textures, idx,
                   class, decodes, cacheVars, decodeVars>>

\* File::create of the output path fails: expect("Failed to save place to
\* file") panics and nothing is written
SaveFails ==
    /\ pc = "loop"
    /\ idx = Len(props) + 1
    /\ pc' = "panicked"
    /\ UNCHANGED <<props, props0, spawned, task, held, permits, textures, idx,
                   class, decodes, output, cacheVars, decodeVars>>

Next ==
    \/ Spawn
    \/ \E i \in Objects : Acquire(i)
    \/ \E i \in Objects : Finish(i)
    \/ JoinAll
    \/ LoopBody
    \/ Save
    \/ SaveFails

Spec == Init /\ [][Next]_vars

(***************************************************************************)
(* The fetch batch of a place with more candidates than permits            *)
(***************************************************************************)

NumFetchTasks == 5

\* a mesh the store serves, and a blank MeshId
FetchKinds ==
    {[TextureID |-> <<"t", "7">>, MeshId |-> <<"a", "1">>],
     [TextureID |-> <<"t", "7">>, MeshId |-> <<" ">>]}

InitFetch ==
    /\ \E kinds \in [1..NumFetchTasks -> FetchKinds] :
          MainStarts([i \in 1..NumFetchTasks |-> Object(i, kinds[i])])
    /\ CacheIdle
    /\ DecodeIdle

SpecFetch == InitFetch /\ [][Next]_vars

(***************************************************************************)
(* The fetch batch as it runs to its end.  The for loop of download_meshs  *)
(* goes on spawning; the runtime polls every spawned task and the          *)
(* semaphore hands a free permit to a waiting task; every download_asset   *)
(* call comes to an end (the hypothesis of the liveness claim); join_all   *)
(* resolves once every handle has.                                         *)
(***************************************************************************)

NumLiveTasks == 5

\* every candidate names a mesh the store serves; its download can succeed,
\* fail or panic
InitLive ==
    /\ MainStarts([i \in 1..NumLiveTasks |->
                      Object(i, [TextureID |-> <<"t", "7">>, MeshId |-> <<"a", "1">>])])
    /\ CacheIdle
    /\ DecodeIdle

SpecLive ==
    /\ InitLive
    /\ [][Next]_vars
    /\ WF_vars(Spawn)
    /\ \A i \in 1..NumLiveTasks : WF_vars(Acquire(i)) /\ WF_vars(Finish(i))
    /\ WF_vars(JoinAll)

(***************************************************************************)
(* The dedup loop as it runs to its end: the body of the for loop is       *)
(* sequential code whose awaits return, so the loop keeps taking steps     *)
(***************************************************************************)

NumLoopObjects == 3

\* two assets with one key, a blank TextureID, and an asset that does not
\* decode
LoopKinds ==
    {[TextureID |-> <<"t", "7">>, MeshId |-> <<"a", "1">>],
     [TextureID |-> <<"t", "7">>, MeshId |-> <<"a", "2">>],
     [TextureID |-> <<" ">>, MeshId |-> <<"a", "1">>],
     [TextureID |-> <<"t", "7">>, MeshId |-> <<"a", "4">>]}

InitLoop ==
    /\ \E kinds \in [1..NumLoopObjects -> LoopKinds] :
          MainStarts([i \in 1..NumLoopObjects |-> Object(i, kinds[i])])
    /\ CacheIdle
    /\ DecodeIdle

SpecLoop == InitLoop /\ [][Next]_vars /\ WF_vars(LoopBody)

(***************************************************************************)
(* download_asset, await by await, on a shared cache directory             *)
(***************************************************************************)

NumCalls == 2
NumChunks == 2

\* the MeshId strings the calls are made with
CallIds == {<<"a", "1">>, <<"a", "2">>}

\* the cache files the calls can touch
CacheFiles == {extract_assetid(s).id : s \in CallIds}

\* the response body of an asset, as the chunks response.chunk() yields
Body(id) == [k \in 1..NumChunks |-> <<id, k>>]

Hole == <<>>

\* the file after a write of chunk at offset off of an open handle (a hole
\* is what lies between the end of a shorter file and the write)
WriteAt(content, off, chunk) ==
    [k \in 1..(IF off + 1 > Len(content) THEN off + 1 ELSE Len(content)) |->
        IF k = off + 1 THEN chunk
        ELSE IF k <= Len(content) THEN content[k] ELSE Hole]

FileOf(c) == extract_assetid(dl[c].asset_id).id

InitCache ==
    /\ MainIdle
    /\ DecodeIdle
    /\ cache = [f \in CacheFiles |-> [exists |-> FALSE, content |-> <<>>]]
    /\ \E ids \in [1..NumCalls -> CallIds] :
          dl = [c \in 1..NumCalls |->
                  [pc |-> "start", asset_id |-> ids[c], got |-> 0, off |-> 0,
                   buffer |-> <<>>]]

\* extract_assetid, then `if !metadata(path).is_ok()`
CheckCache(c) ==
    /\ dl[c].pc = "start"
    /\ dl' = [dl EXCEPT ![c].pc = IF cache[FileOf(c)].exists THEN "open" ELSE "get"]
    /\ UNCHANGED <<cache, mainVars, decodeVars>>

\* reqwest::get returns a response with a success status
GetResponse(c) ==
    /\ dl[c].pc = "get"
    /\ dl' = [dl EXCEPT ![c].pc = "create"]
    /\ UNCHANGED <<cache, mainVars, decodeVars>>

\* reqwest::get fails (`?`), or the status assertion panics
GetFails(c) ==
    /\ dl[c].pc = "get"
    /\ \E o \in {"err", "panic"} : dl' = [dl EXCEPT ![c].pc = o]
    /\ UNCHANGED <<cache, mainVars, decodeVars>>

\* tokio::fs::File::create: the file exists from now on, empty
CreateFile(c) ==
    /\ dl[c].pc = "create"
    /\ cache' = [cache EXCEPT ![FileOf(c)] = [exists |-> TRUE, content |-> <<>>]]
    /\ dl' = [dl EXCEPT ![c].pc = "chunks", ![c].off = 0]
    /\ UNCHANGED <<mainVars, decodeVars>>

\* response.chunk() yields the next chunk and file.write puts it at the
\* handle's offset
WriteChunk(c) ==
    /\ dl[c].pc = "chunks"
    /\ dl[c].got < NumChunks
    /\ cache' = [cache EXCEPT ![FileOf(c)].content =
                    WriteAt(@, dl[c].off, Body(FileOf(c))[dl[c].got + 1])]
    /\ dl' = [dl EXCEPT ![c].got = @ + 1, ![c].off = @ + 1]
    /\ UNCHANGED <<mainVars, decodeVars>>

\* response.chunk() or file.write fails: `?` returns, the file stays
ChunkFails(c) ==
    /\ dl[c].pc = "chunks"
    /\ dl[c].got < NumChunks
    /\ dl' = [dl EXCEPT ![c].pc = "err"]
    /\ UNCHANGED <<cache, mainVars, decodeVars>>

\* response.chunk() yields None; file.flush
EndOfBody(c) ==
    /\ dl[c].pc = "chunks"
    /\ dl[c].got = NumChunks
    /\ dl' = [dl EXCEPT ![c].pc = "open"]
    /\ UNCHANGED <<cache, mainVars, decodeVars>>

\* File::open and read_to_end: Ok(Cursor::new(buffer))
OpenAndRead(c) ==
    /\ dl[c].pc = "open"
    /\ dl' = [dl EXCEPT ![c].pc = "ok", ![c].buffer = cache[FileOf(c)].content]
    /\ UNCHANGED <<cache, mainVars, decodeVars>>

NextCache ==
    \/ \E c \in DOMAIN dl : CheckCache(c)
    \/ \E c \in DOMAIN dl : GetResponse(c)
    \/ \E c \in DOMAIN dl : GetFails(c)
    \/ \E c \in DOMAIN dl : CreateFile(c)
    \/ \E c \in DOMAIN dl : WriteChunk(c)
    \/ \E c \in DOMAIN dl : ChunkFails(c)
    \/ \E c \in DOMAIN dl : EndOfBody(c)
    \/ \E c \in DOMAIN dl : OpenAndRead(c)

SpecCache == InitCache /\ [][NextCache]_vars

(***************************************************************************)
(* Properties                                                              *)
(***************************************************************************)

\* what the input place says, read without the program's own string code
AllSpaces(str) == \A k \in 1..Len(str) : str[k] = " "
BlankTexture(i) == AllSpaces(props0[i].TextureID)
BlankMesh(i) == AllSpaces(props0[i].MeshId)
Blank(i) == BlankTexture(i) \/ BlankMesh(i)

\* what decoding the asset of a candidate gives; the asset is named by the
\* last character of the MeshId
DecodedOf(i) == Decoded[<<props0[i].MeshId[Len(props0[i].MeshId)]>>]
Decodes(i) == DecodedOf(i).tag = "ok"
HasKey(i, k) == ~Blank(i) /\ Decodes(i) /\ DecodedOf(i).mesh.hash = k

InFlight == {i \in Objects : task[i] = "inflight"}
AnyTaskFailed == \E i \in Objects : Failed(task[i])

\* C1: once a fetch task has failed (an error result or a panic),
\* download_meshs can only return Err: main is still in download_meshs or
\* has returned, from_asset_id was never called, the dedup map is empty and
\* no object is modified, nothing is written.
C1_FetchBatchAllOrNothing ==
    AnyTaskFailed =>
        /\ pc \in {"download_meshs", "returned"}
        /\ decodes = 0
        /\ DOMAIN textures = {}
        /\ props = props0
        /\ ~output.written

\* a run that has returned after one task panicked while another succeeded
C1_Witness ==
    /\ pc = "returned"
    /\ \E i, j \in Objects : task[i] = "panic" /\ task[j] = "ok"

\* C2: at most four tasks are inside download_asset at any time, each of
\* them holds a permit, and the free permits are the four less the ones
\* held.
C2_AtMostFourInFlight ==
    /\ Cardinality(InFlight) <= NumPermits
    /\ \A i \in Objects : task[i] = "inflight" => held[i]
    /\ permits = NumPermits - Cardinality(InFlight)

\* four downloads in flight while a fifth task waits for a permit
C2_Witness ==
    /\ Cardinality(InFlight) = NumPermits
    /\ \E i \in Objects : task[i] = "waiting"

\* the first candidate in scan order, among those the loop has passed, that
\* is not skipped and decodes to key k
IsFirst(f, k) ==
    /\ f < idx
    /\ HasKey(f, k)
    /\ \A j \in 1..(f - 1) : ~HasKey(j, k)

\* C3: every entry of the dedup map is the one made from the first
\* non-skipped candidate with that key in scan order (its mesh id, sizes and
\* CFrame as the input place holds them), whatever candidates with the same
\* key came later, and that first candidate still has its input properties.
C3_FirstOccurrenceIsCanonical ==
    /\ \A k \in DOMAIN textures :
          \E f \in Objects :
              /\ IsFirst(f, k)
              /\ textures[k].asset_id = props0[f].MeshId
              /\ textures[k].size = props0[f].Size
              /\ textures[k].init_size = props0[f].InitialSize
              /\ textures[k].cframe = props0[f].CFrame
              /\ props[f] = props0[f]
    /\ \A i \in Objects :
          (pc \in {"loop", "done"} /\ i < idx /\ ~Blank(i))
              => DecodedOf(i).mesh.hash \in DOMAIN textures

\* the run is over, a later candidate with the key of an earlier one was
\* processed, and the entry is still the earlier one's
C3_Witness ==
    /\ pc = "done"
    /\ \E f, i \in Objects :
          /\ f < i
          /\ class[f] = "canonical"
          /\ class[i] = "rewritten"
          /\ HasKey(i, DecodedOf(f).mesh.hash)
          /\ props0[i].MeshId # props0[f].MeshId

\* C4: when the place has been written, every candidate that took the
\* duplicate branch carries the representative's asset id as MeshId and the
\* representative's recorded Size and InitialSize, and all non-skipped
\* candidates with one key carry one and the same MeshId; the written place
\* holds exactly these properties.
C4_DuplicatesRewritten ==
    pc = "done" =>
        /\ \A i \in Objects :
              class[i] = "rewritten" =>
                  /\ props[i].MeshId = textures[DecodedOf(i).mesh.hash].asset_id
                  /\ props[i].Size = textures[DecodedOf(i).mesh.hash].size
                  /\ props[i].InitialSize = textures[DecodedOf(i).mesh.hash].init_size
        /\ \A i, j \in Objects :
              (~Blank(i) /\ ~Blank(j)
                  /\ DecodedOf(i).mesh.hash = DecodedOf(j).mesh.hash)
                  => props[i].MeshId = props[j].MeshId
        /\ output.scene = props

\* a written place in which a duplicate's MeshId and sizes were changed
C4_Witness ==
    /\ pc = "done"
    /\ \E i \in Objects :
          /\ class[i] = "rewritten"
          /\ props[i].MeshId # props0[i].MeshId
          /\ props[i].Size # props0[i].Size
          /\ props[i].InitialSize # props0[i].InitialSize

\* C5: a candidate whose TextureID is blank keeps all five input properties,
\* never takes the canonical or the duplicate branch, and no entry of the
\* dedup map was made from it.
C5_BlankTextureUntouched ==
    \A i \in Objects :
        BlankTexture(i) =>
            /\ props[i] = props0[i]
            /\ class[i] \in {"pending", "skipped"}
            /\ \A k \in DOMAIN textures : textures[k].cframe # props0[i].CFrame
            /\ output.written => output.scene[i] = props0[i]

\* a written place whose first candidate has a blank TextureID and the mesh
\* of a later candidate, which became the representative
C5_Witness ==
    /\ pc = "done"
    /\ \E i, j \in Objects :
          /\ i < j
          /\ BlankTexture(i)
          /\ class[i] = "skipped"
          /\ class[j] = "canonical"
          /\ props0[j].MeshId = props0[i].MeshId

\* C6: a blank candidate is not an error: when main has returned on a failed
\* fetch batch, a candidate that is not blank has a failed fetch task.
C6_BlankIsNotAnError ==
    pc = "returned" => \E i \in Objects : ~Blank(i) /\ Failed(task[i])

\* C7: a download_asset call that returns Ok returns the whole body of its
\* asset.
C7_FetchReturnsWholeBody ==
    \A c \in DOMAIN dl : dl[c].pc = "ok" => dl[c].buffer = Body(FileOf(c))

\* C8: the place is written only at the end of a run in which every fetch
\* task succeeded and every non-skipped candidate was decoded and handled;
\* a run that has returned or panicked has written nothing.
C8_NoPartialOutput ==
    /\ output.written =>
          /\ pc = "done"
          /\ idx = Len(props) + 1
          /\ \A i \in Objects : task[i] = "ok"
          /\ \A i \in Objects :
                ~Blank(i) => Decodes(i) /\ class[i] \in {"canonical", "rewritten"}
    /\ pc \in {"returned", "panicked"} => ~output.written

\* a decode failure after an earlier candidate was rewritten in memory:
\* the run has panicked and nothing is written
C8_Witness ==
    /\ pc = "panicked"
    /\ idx <= Len(props)
    /\ \E i \in Objects : class[i] = "rewritten" /\ props[i] # props0[i]
    /\ ~output.written

\* the banner and the header-size field as far as the buffer holds them
Preamble == Banner \o U16Bytes(HeaderSize)
PreambleHeld(b) ==
    \A k \in 1..Min(Len(b), Len(Preamble)) : b[k] = Preamble[k]

\* a buffer that holds a whole banner other than "version 4.00\n", or the
\* banner and a header-size field other than 24
BadFormat(b) ==
    \/ Len(b) >= BannerLen /\ SubSeq(b, 1, BannerLen) # Banner
    \/ Len(b) >= Len(Preamble) /\ SubSeq(b, 1, BannerLen) = Banner
          /\ ~PreambleHeld(b)

\* the bytes the header of a buffer declares: banner, size field, the 22
\* bytes of the fields, 40 a vertex, 8 a bone-weight record, 12 a face, 4 a
\* LOD boundary
FieldAt(b, off, kind) == Value(kind, SubSeq(b, off + 1, off + Width(kind)))
DeclaredLen(b) ==
    37 + 40 * FieldAt(b, 17, "i32")
       + (IF FieldAt(b, 27, "u16") > 0 THEN 8 * FieldAt(b, 17, "i32") ELSE 0)
       + 12 * FieldAt(b, 21, "i32")
       + 4 * FieldAt(b, 25, "u16")

\* a buffer that ends before the bytes it declares
Truncated(b) ==
    /\ PreambleHeld(b)
    /\ Len(b) < 37 \/ Len(b) < DeclaredLen(b)

\* C9: a buffer with another banner or header size makes from_cursor return
\* an error value: no panic, no mesh.
C9_BadFormatIsAnError ==
    (result.tag \notin {"idle", "pending"} /\ BadFormat(buf)) => result.tag = "err"

\* C10: a buffer that ends before the bytes its header declares makes
\* from_cursor return the short-read error: no panic, no mesh.
C10_ShortReadIsTruncated ==
    (result.tag \notin {"idle", "pending"} /\ Truncated(buf)) => result = Eof

\* a buffer that holds the banner, the header size 24 and exactly the bytes
\* its header declares
WellFormed(b) ==
    /\ Len(b) >= 37
    /\ PreambleHeld(b)
    /\ Len(b) = DeclaredLen(b)

DeclaredVerts(b) == FieldAt(b, 17, "i32")

\* C11: a well-formed buffer that declares zero vertices makes from_cursor
\* return an error value: no mesh, no panic.
C11_ZeroVerticesIsEmpty ==
    (result.tag \notin {"idle", "pending"} /\ WellFormed(buf)
        /\ DeclaredVerts(buf) = 0) => result.tag = "err"

\* the key as the formula states it, over the integers, from the fields of
\* a decoded mesh: floats are in quarters, so floor is \div 4
SumOf(v) == v.x + v.y + v.z
FloorOfQuarters(q) == q \div 4
Magnitude(q) == IF q >= 0 THEN q ELSE 0 - q
ExtentTerm(m) ==
    FloorOfQuarters(Magnitude(SumOf(m.bounding_box_size.min))
                        + SumOf(m.bounding_box_size.max))
IsI32(n) == n >= MinI32 /\ n <= MaxI32

\* the LOD difference and the sum of the formula are i32 values
LodsInRange(m) ==
    Len(m.lods) > 1 =>
        IF m.lods[1] >= 0
        THEN m.lods[2] >= MinI32 + m.lods[1]
        ELSE m.lods[2] <= MaxI32 + m.lods[1]
TriangleCount(m) == IF Len(m.lods) > 1 THEN m.lods[2] - m.lods[1] ELSE 0
KeyInRange(m) ==
    /\ LodsInRange(m)
    /\ IF ExtentTerm(m) >= 0
       THEN TriangleCount(m) <= MaxI32 - ExtentTerm(m)
       ELSE TriangleCount(m) >= MinI32 - ExtentTerm(m)

\* C12: a decoded mesh whose formula stays in the i32 range has the triangle
\* count lods[1] - lods[0] (0 with fewer than two boundaries) and the key
\* triangle count + floor(|min.x+min.y+min.z| + (max.x+max.y+max.z)), an
\* i32; a build with overflow checks and one without decode the buffer to
\* this same mesh.
C12_HashFormula ==
    (result.tag = "ok" /\ KeyInRange(result.mesh)) =>
        /\ result.mesh.triangles = TriangleCount(result.mesh)
        /\ result.mesh.hash = TriangleCount(result.mesh) + ExtentTerm(result.mesh)
        /\ IsI32(result.mesh.hash)
        /\ \A checks \in BOOLEAN :
              overflow_checked(from_cursor(buf), checks) = result

\* a decoded mesh with ten triangles whose minimum corner sums below zero
\* and whose extent term has a fraction that floor drops
C12_Witness ==
    /\ result.tag = "ok"
    /\ KeyInRange(result.mesh)
    /\ result.mesh.triangles = 10
    /\ SumOf(result.mesh.bounding_box_size.min) < 0
    /\ (Magnitude(SumOf(result.mesh.bounding_box_size.min))
            + SumOf(result.mesh.bounding_box_size.max)) % 4 # 0

\* the positions of the vertices of a mesh, and the least and the greatest
\* of a set of numbers
PositionsOf(m) == {m.vertices[k].position : k \in 1..Len(m.vertices)}
IsLeast(n, S) == n \in S /\ \A k \in S : n <= k
IsGreatest(n, S) == n \in S /\ \A k \in S : n >= k

ComponentWiseBox(size, P) ==
    /\ IsLeast(size.min.x, {p.x : p \in P})
    /\ IsLeast(size.min.y, {p.y : p \in P})
    /\ IsLeast(size.min.z, {p.z : p \in P})
    /\ IsGreatest(size.max.x, {p.x : p \in P})
    /\ IsGreatest(size.max.y, {p.y : p \in P})
    /\ IsGreatest(size.max.z, {p.z : p \in P})

OverflowPanic(r) ==
    r.tag = "panic" /\ r.at \in {"attempt to subtract with overflow",
                                 "attempt to add with overflow"}

\* C14: a well-formed buffer that declares at least one vertex decodes to a
\* mesh (i32 overflow of the key aside), with as many vertices as declared,
\* whose bounding_box_size has the component-wise minimum and maximum of
\* the vertex positions.
C14_BoundingBoxOfAnyMesh ==
    (result.tag \notin {"idle", "pending"} /\ WellFormed(buf)
        /\ DeclaredVerts(buf) >= 1 /\ ~OverflowPanic(result)) =>
        /\ result.tag = "ok"
        /\ Len(result.mesh.vertices) = DeclaredVerts(buf)
        /\ ComponentWiseBox(result.mesh.bounding_box_size, PositionsOf(result.mesh))

\* the part of C14 that the code keeps: from four vertices on
C14_FromFourVertices ==
    (result.tag \notin {"idle", "pending"} /\ WellFormed(buf)
        /\ DeclaredVerts(buf) >= 4 /\ ~OverflowPanic(result)) =>
        /\ result.tag = "ok"
        /\ Len(result.mesh.vertices) = DeclaredVerts(buf)
        /\ ComponentWiseBox(result.mesh.bounding_box_size, PositionsOf(result.mesh))

AllDecode == \A i \in Objects : ~Blank(i) => Decodes(i)
LoopOver == pc \in {"loop", "done"} /\ idx = Len(props) + 1

\* the class of a candidate the loop has passed, and what it says
Classified(i) ==
    /\ class[i] \in {"skipped", "canonical", "rewritten"}
    /\ class[i] = "skipped" <=> Blank(i)
    /\ class[i] = "skipped" => props[i] = props0[i]
    /\ class[i] = "canonical" =>
          /\ props[i] = props0[i]
          /\ DecodedOf(i).mesh.hash \in DOMAIN textures
          /\ textures[DecodedOf(i).mesh.hash].cframe = props0[i].CFrame
    /\ class[i] = "rewritten" =>
          \E f \in 1..(i - 1) :
              /\ class[f] = "canonical"
              /\ DecodedOf(f).mesh.hash = DecodedOf(i).mesh.hash

\* the loop has passed the candidates before idx, once each, and none after
VisitedInScanOrder ==
    pc \in {"loop", "done"} =>
        /\ \A i \in Objects : i < idx => Classified(i)
        /\ \A i \in Objects :
              i >= idx => class[i] = "pending" /\ props[i] = props0[i]

\* a step of the loop visits the candidate at idx and no other
VisitsNext ==
    (pc = "loop" /\ pc' = "loop") =>
        /\ idx' = idx + 1
        /\ class[idx] = "pending"
        /\ class'[idx] # "pending"
        /\ \A i \in Objects : i # idx => class'[i] = class[i] /\ props'[i] = props[i]

\* C13: in a run whose fetch batch succeeded and whose meshes all decode,
\* the dedup loop visits the candidates one by one in scan order and comes
\* to its end; every candidate is then in exactly one class (skipped and
\* unmodified, canonical, in the map and unmodified, or rewritten after a
\* canonical candidate with its key), and the place is written only then.
C13_TerminalState ==
    /\ [](VisitedInScanOrder)
    /\ [](output.written => LoopOver /\ output.scene = props)
    /\ [][VisitsNext]_vars
    /\ ((pc = "loop" /\ AllDecode) ~> LoopOver)

\* a written place with a skipped, a canonical and a rewritten candidate
C13_Witness ==
    /\ pc = "done"
    /\ output.written
    /\ \E i, j, k \in Objects :
          class[i] = "skipped" /\ class[j] = "canonical" /\ class[k] = "rewritten"

AllFinished == spawned = Len(props) /\ \A i \in Objects : Finished(task[i])
PermitsHeld == {i \in Objects : held[i]}

\* C15: every task of the batch is spawned, gets a permit and finishes;
\* exactly the tasks inside download_asset hold a permit, so a task that has
\* finished (with success, an error or a panic) has given its permit back
\* and all four are free when all have finished; download_meshs returns,
\* and not before every task has finished.
C15_FetchBatchTerminates ==
    /\ \A i \in 1..NumLiveTasks : (task[i] = "unspawned") ~> (task[i] = "inflight")
    /\ \A i \in 1..NumLiveTasks : (task[i] = "inflight") ~> Finished(task[i])
    /\ [](\A i \in Objects : held[i] <=> task[i] = "inflight")
    /\ [](permits = NumPermits - Cardinality(PermitsHeld))
    /\ [](AllFinished => permits = NumPermits)
    /\ (pc = "download_meshs") ~> (pc # "download_meshs")
    /\ [](pc # "download_meshs" => AllFinished)

\* download_meshs has returned from a batch of more tasks than permits in
\* which one task failed and another panicked; the permits are free again
C15_Witness ==
    /\ pc = "returned"
    /\ Len(props) > NumPermits
    /\ AllFinished
    /\ permits = NumPermits
    /\ \E i, j \in Objects : task[i] = "err" /\ task[j] = "panic"

====
